---- MODULE Spec2Model ----
(***************************************************************************)
(* A model of src/lib/common/black/__init__.py: format_str and the tree    *)
(* analyses it calls (get_features_used, detect_target_versions,           *)
(* get_future_imports).                                                    *)
(*                                                                         *)
(* A syntax tree node is a record [leaf, type, value, children].  The text *)
(* of a leaf is a sequence of pieces: one piece per character for STRING   *)
(* and NUMBER leaves (the code slices and scans them), and the whole       *)
(* identifier as a single piece for every other leaf.                      *)
(***************************************************************************)
EXTENDS Integers, Sequences, FiniteSets, TLC

VARIABLES
    src,                \* the input of the call: [parses, tree, lines]
    mode,               \* Mode: [target_versions, is_pyi]
    pc,                 \* position in format_str / the applied function
    future_imports,     \* format_str: future_imports (get_future_imports' result)
    features,           \* result of get_features_used
    versions,           \* format_str: versions
    notice,             \* show_error_panel has been called
    normalized,         \* normalize_fmt_off has run on src_node
    split_line_features,\* format_str: split_line_features
    remove_u_prefix,    \* the flag handed to LineGenerator
    consumed,           \* number of logical lines taken from lines.visit(src_node)
    after,              \* format_str: after
    dst_contents,       \* format_str: dst_contents, a list of chunks
    ret                 \* what format_str returned: <<>> before it returns (and
                        \* for ever when it raises), <<text>> once it has returned

vars == <<src, mode, pc, future_imports, features, versions, notice, normalized,
          split_line_features, remove_u_prefix, consumed, after, dst_contents, ret>>

None == "None"

NotReturned == <<>>

----------------------------------------------------------------------------
(* blib2to3.pytree Leaf and Node *)

Leaf(t, v) == [leaf |-> TRUE, type |-> t, value |-> v, children |-> <<>>]

Node(t, ch) == [leaf |-> FALSE, type |-> t, value |-> <<>>, children |-> ch]

Name(s) == Leaf("NAME", <<s>>)

Tok(t) == Leaf(t, <<t>>)

Range(s) == {s[i] : i \in 1..Len(s)}

RECURSIVE Concat(_)
Concat(ss) == IF ss = <<>> THEN <<>> ELSE Head(ss) \o Concat(Tail(ss))

\* Node.pre_order(): the node, then the pre-order of each child in turn; every
\* entry carries the type of its parent (None for the root) for n.parent.
RECURSIVE pre_order(_, _)
pre_order(n, parent) ==
    <<[n |-> n, parent |-> parent]>>
        \o Concat([i \in 1..Len(n.children) |-> pre_order(n.children[i], n.type)])

----------------------------------------------------------------------------
(* black.nodes / black.mode names used by the code *)

STARS == {"STAR", "DOUBLESTAR"}

Digits == {"0", "1", "2", "3", "4", "5", "6", "7", "8", "9"}

TargetVersion == {"PY27", "PY33", "PY35", "PY36", "PY38"}

Py2Features ==
    {"PRINT_STMT", "EXEC_STMT", "AUTOMATIC_PARAMETER_UNPACKING", "COMMA_STYLE_EXCEPT",
     "COMMA_STYLE_RAISE", "LONG_INT_LITERAL", "OCTAL_INT_LITERAL", "BACKQUOTE_REPR"}

\* The table of the features each target version supports.
VERSION_TO_FEATURES ==
    [v \in TargetVersion |->
        CASE v = "PY27" -> {"ASYNC_IDENTIFIERS"} \cup Py2Features
          [] v = "PY33" -> {"UNICODE_LITERALS", "ASYNC_IDENTIFIERS"}
          [] v = "PY35" -> {"UNICODE_LITERALS", "TRAILING_COMMA_IN_CALL", "ASYNC_IDENTIFIERS"}
          [] v = "PY36" -> {"UNICODE_LITERALS", "F_STRINGS", "NUMERIC_UNDERSCORES",
                            "TRAILING_COMMA_IN_CALL", "TRAILING_COMMA_IN_DEF",
                            "ASYNC_IDENTIFIERS"}
          [] v = "PY38" -> {"UNICODE_LITERALS", "F_STRINGS", "NUMERIC_UNDERSCORES",
                            "TRAILING_COMMA_IN_CALL", "TRAILING_COMMA_IN_DEF",
                            "ASYNC_KEYWORDS", "FUTURE_ANNOTATIONS",
                            "ASSIGNMENT_EXPRESSIONS", "POS_ONLY_ARGUMENTS"}]

\* supports_feature: all(feature in VERSION_TO_FEATURES[v] for v in target_versions)
supports_feature(target_versions, feature) ==
    \A v \in target_versions : feature \in VERSION_TO_FEATURES[v]

\* A decorator expression is simple when it is a (dotted) name, optionally called.
is_simple_decorator_expression(n) ==
    \/ n.type = "NAME"
    \/ /\ n.type = "power"
       /\ \A i \in 1..Len(n.children) : n.children[i].type \in {"NAME", "trailer"}

----------------------------------------------------------------------------
(* get_features_used *)

\* n.value[:2]
value_head(v) == SubSeq(v, 1, IF Len(v) < 2 THEN Len(v) ELSE 2)

FStringHeads ==
    {<<"f", "\"">>, <<"F", "\"">>, <<"f", "'">>, <<"F", "'">>,
     <<"r", "f">>, <<"f", "r">>, <<"R", "F">>, <<"F", "R">>}

\* Mutant of StarFeature: the loop looks at the list's own children only and
\* misses a star inside an `argument` child.
StarFeatureDirectOnly(n, feature) ==
    IF \E i \in 1..Len(n.children) : n.children[i].type \in STARS
    THEN {feature}
    ELSE {}

\* The features the for-loop over n.children adds for a list ending with a comma.
StarFeature(n, feature) ==
    IF \E i \in 1..Len(n.children) :
          \/ n.children[i].type \in STARS
          \/ /\ n.children[i].type = "argument"
             /\ \E j \in 1..Len(n.children[i].children) :
                    n.children[i].children[j].type \in STARS
    THEN {feature}
    ELSE {}

\* One iteration of the loop `for n in node.pre_order()`: the features it adds.
FeaturesAt(n, parent) ==
    IF n.type = "STRING" THEN
        IF value_head(n.value) \in FStringHeads THEN {"F_STRINGS"} ELSE {}
    ELSE IF n.type = "NUMBER" THEN
        IF "_" \in Range(n.value) THEN {"NUMERIC_UNDERSCORES"}
        ELSE IF n.value[Len(n.value)] \in {"L", "l"} THEN {"LONG_INT_LITERAL"}
        ELSE IF Len(n.value) >= 2 /\ n.value[1] = "0" /\ n.value[2] \in Digits THEN
            IF ~(\A i \in 1..Len(n.value) : n.value[i] = "0")
            THEN {"OCTAL_INT_LITERAL"}
            ELSE {}
        ELSE {}
    ELSE IF n.type = "SLASH" THEN
        IF parent \in {"typedargslist", "arglist", "varargslist"}
        THEN {"POS_ONLY_ARGUMENTS"}
        ELSE {}
    ELSE IF n.type = "COLONEQUAL" THEN {"ASSIGNMENT_EXPRESSIONS"}
    ELSE IF n.type = "decorator" THEN
        IF Len(n.children) > 1 /\ ~is_simple_decorator_expression(n.children[2])
        THEN {"RELAXED_DECORATORS"}
        ELSE {}
    ELSE IF /\ n.type \in {"typedargslist", "arglist"}
            /\ n.children # <<>>
            /\ n.children[Len(n.children)].type = "COMMA" THEN
        IF n.type = "typedargslist"
        THEN StarFeature(n, "TRAILING_COMMA_IN_DEF")
        ELSE StarFeature(n, "TRAILING_COMMA_IN_CALL")
    ELSE IF n.type = "print_stmt" THEN {"PRINT_STMT"}
    ELSE IF n.type = "exec_stmt" THEN {"EXEC_STMT"}
    ELSE IF n.type = "tfpdef" THEN {"AUTOMATIC_PARAMETER_UNPACKING"}
    ELSE IF n.type = "except_clause" THEN
        IF Len(n.children) >= 4 /\ n.children[Len(n.children) - 1].type = "COMMA"
        THEN {"COMMA_STYLE_EXCEPT"}
        ELSE {}
    ELSE IF n.type = "raise_stmt" THEN
        IF Len(n.children) >= 4 /\ n.children[Len(n.children) - 1].type = "COMMA"
        THEN {"COMMA_STYLE_RAISE"}
        ELSE {}
    ELSE IF n.type = "BACKQUOTE" THEN {"BACKQUOTE_REPR"}
    ELSE {}

RECURSIVE FeatureLoop(_, _)
FeatureLoop(todo, acc) ==
    IF todo = <<>> THEN acc
    ELSE FeatureLoop(Tail(todo), acc \cup FeaturesAt(Head(todo).n, Head(todo).parent))

get_features_used(node) == FeatureLoop(pre_order(node, None), {})

\* detect_target_versions
detect_target_versions(node) ==
    {version \in TargetVersion : get_features_used(node) \subseteq VERSION_TO_FEATURES[version]}

----------------------------------------------------------------------------
(* get_future_imports *)

\* The nested generator get_imports_from_children: [names, raised], raised when
\* the final else (raise AssertionError) is reached.
RECURSIVE get_imports_from_children(_)
get_imports_from_children(children) ==
    IF children = <<>> THEN [names |-> {}, raised |-> FALSE]
    ELSE
        LET child == Head(children)
            rest == get_imports_from_children(Tail(children))
            here ==
                IF child.leaf THEN
                    [names |-> IF child.type = "NAME" THEN {child.value[1]} ELSE {},
                     raised |-> FALSE]
                ELSE IF child.type = "import_as_name" THEN
                    LET orig_name == child.children[1]
                    IN  IF orig_name.leaf /\ orig_name.type = "NAME"
                        THEN [names |-> {orig_name.value[1]}, raised |-> FALSE]
                        ELSE [names |-> {}, raised |-> TRUE]
                ELSE IF child.type = "import_as_names" THEN
                    get_imports_from_children(child.children)
                ELSE [names |-> {}, raised |-> TRUE]
        IN  IF here.raised
            THEN [names |-> here.names, raised |-> TRUE]
            ELSE [names |-> here.names \cup rest.names, raised |-> rest.raised]

\* The loop `for child in node.children` of get_future_imports.
RECURSIVE FutureLoop(_, _)
FutureLoop(children, imports) ==
    IF children = <<>> THEN [imports |-> imports, raised |-> FALSE]
    ELSE
        LET child == Head(children)
            stop == [imports |-> imports, raised |-> FALSE]
        IN  IF child.type # "simple_stmt" THEN stop
            ELSE
                LET first_child == child.children[1]
                IN  IF first_child.leaf THEN
                        IF /\ Len(child.children) = 2
                           /\ first_child.type = "STRING"
                           /\ child.children[2].type = "NEWLINE"
                        THEN FutureLoop(Tail(children), imports)
                        ELSE stop
                    ELSE IF first_child.type = "import_from" THEN
                        LET module_name == first_child.children[2]
                        IN  IF ~module_name.leaf \/ module_name.value # <<"__future__">>
                            THEN stop
                            ELSE
                                LET got == get_imports_from_children(
                                               SubSeq(first_child.children, 4,
                                                      Len(first_child.children)))
                                IN  IF got.raised
                                    THEN [imports |-> imports, raised |-> TRUE]
                                    ELSE FutureLoop(Tail(children), imports \cup got.names)
                    ELSE stop

get_future_imports(node) == FutureLoop(node.children, {})

----------------------------------------------------------------------------
(* Inputs: trees as blib2to3 builds them *)

MaxArgs == 2

NoLines == <<>>

Source(tree) == [parses |-> TRUE, tree |-> tree, lines |-> NoLines]

file_input(stmts) == Node("file_input", stmts \o <<Tok("ENDMARKER")>>)

simple_stmt(small) == Node("simple_stmt", <<small, Tok("NEWLINE")>>)

Assign(value) == simple_stmt(Node("expr_stmt", <<Name("x"), Tok("EQUAL"), value>>))

Quotes == {"\"", "'"}

StringPrefixes ==
    {<<>>, <<"f">>, <<"F">>, <<"r">>, <<"R">>, <<"b">>, <<"u">>, <<"b", "r">>, <<"r", "b">>}
        \cup {<<a, b>> : a \in {"r", "R"}, b \in {"f", "F"}}
        \cup {<<b, a>> : a \in {"r", "R"}, b \in {"f", "F"}}

StringValues == {p \o <<q, "f", q>> : p \in StringPrefixes, q \in Quotes}

NumberValues ==
    {<<"0">>, <<"1", "0">>, <<"0", "0", "0", "0">>, <<"0", "1", "2", "3">>,
     <<"0", "0", "1", "2", "3">>, <<"1", "0", "_", "0", "0", "0">>, <<"0", "_", "0">>,
     <<"0", "o", "1", "7">>, <<"0", "x", "1", "f">>, <<"1", "0", "L">>,
     <<"0", "1", "2", "3", "L">>, <<"1", ".", "5">>, <<"0", ".", "5">>,
     <<"0", "1", ".", "5">>, <<"0", "0", ".", "0">>, <<"0", "1", "e", "5">>,
     <<"1", "j">>, <<"0", "1", "2", "j">>}

SeqsUpTo(S, n) == UNION {[1..m -> S] : m \in 1..n}

\* The children of a comma-separated list: the elements' children joined by COMMA
\* leaves, and a trailing COMMA when the source has one.
RECURSIVE CommaJoin(_, _)
CommaJoin(elems, trailing) ==
    IF Len(elems) = 1
    THEN Head(elems) \o (IF trailing THEN <<Tok("COMMA")>> ELSE <<>>)
    ELSE Head(elems) \o <<Tok("COMMA")>> \o CommaJoin(Tail(elems), trailing)

\* A list node exists only when it has two children or more: the parser collapses
\* a node with a single child into that child.
ListNode(type, children) ==
    IF Len(children) = 1 THEN children[1] ELSE Node(type, children)

ArgKinds == {"name", "star", "dstar", "kw", "pow"}

\* One argument of a call: a, *a, **k, k=a, a**b
Arg(kind) ==
    CASE kind = "name"  -> Name("a")
      [] kind = "star"  -> Node("argument", <<Tok("STAR"), Name("a")>>)
      [] kind = "dstar" -> Node("argument", <<Tok("DOUBLESTAR"), Name("k")>>)
      [] kind = "kw"    -> Node("argument", <<Name("k"), Tok("EQUAL"), Name("a")>>)
      [] kind = "pow"   -> Node("power", <<Name("a"), Tok("DOUBLESTAR"), Name("b")>>)

Call(kinds, trailing) ==
    simple_stmt(Node("power",
        <<Name("f"),
          Node("trailer",
               <<Tok("LPAR"),
                 ListNode("arglist",
                          CommaJoin([i \in 1..Len(kinds) |-> <<Arg(kinds[i])>>], trailing)),
                 Tok("RPAR")>>)>>))

ParamKinds == {"name", "star", "dstar", "default", "barestar"}

\* One parameter of a signature, as the children it adds to typedargslist:
\* a, *args, **kw, a=2**3, *
Param(kind) ==
    CASE kind = "name"     -> <<Name("a")>>
      [] kind = "star"     -> <<Tok("STAR"), Name("args")>>
      [] kind = "dstar"    -> <<Tok("DOUBLESTAR"), Name("kw")>>
      [] kind = "default"  -> <<Name("a"), Tok("EQUAL"),
                                Node("power", <<Leaf("NUMBER", <<"2">>), Tok("DOUBLESTAR"),
                                                Leaf("NUMBER", <<"3">>)>>)>>
      [] kind = "barestar" -> <<Tok("STAR")>>

Def(kinds, trailing) ==
    Node("funcdef",
         <<Name("def"), Name("f"),
           Node("parameters",
                <<Tok("LPAR"),
                  ListNode("typedargslist",
                           CommaJoin([i \in 1..Len(kinds) |-> Param(kinds[i])], trailing)),
                  Tok("RPAR")>>),
           Tok("COLON"), simple_stmt(Name("pass"))>>)

\* print 1; exec "f"; def f((a, b)): pass; except E, e; raise E, 1; `x`; (x := 1);
\* def f(a, /): pass; @f / @f[0] decorated definitions
OtherStmts ==
    {simple_stmt(Node("print_stmt", <<Name("print"), Leaf("NUMBER", <<"1">>)>>)),
     simple_stmt(Node("exec_stmt", <<Name("exec"), Leaf("STRING", <<"\"", "f", "\"">>)>>)),
     Node("funcdef",
          <<Name("def"), Name("f"),
            Node("parameters",
                 <<Tok("LPAR"),
                   Node("tfpdef", <<Tok("LPAR"),
                                    Node("tfplist", <<Name("a"), Tok("COMMA"), Name("b")>>),
                                    Tok("RPAR")>>),
                   Tok("RPAR")>>),
            Tok("COLON"), simple_stmt(Name("pass"))>>),
     Node("try_stmt",
          <<Name("try"), Tok("COLON"), simple_stmt(Name("pass")),
            Node("except_clause", <<Name("except"), Name("E"), Tok("COMMA"), Name("e")>>),
            Tok("COLON"), simple_stmt(Name("pass"))>>),
     Node("try_stmt",
          <<Name("try"), Tok("COLON"), simple_stmt(Name("pass")),
            Node("except_clause", <<Name("except"), Name("E"), Name("as"), Name("e")>>),
            Tok("COLON"), simple_stmt(Name("pass"))>>),
     simple_stmt(Node("raise_stmt",
                      <<Name("raise"), Name("E"), Tok("COMMA"), Leaf("NUMBER", <<"1">>)>>)),
     simple_stmt(Node("raise_stmt", <<Name("raise"), Name("E")>>)),
     simple_stmt(Node("atom", <<Tok("BACKQUOTE"), Name("x"), Tok("BACKQUOTE")>>)),
     simple_stmt(Node("atom",
                      <<Tok("LPAR"),
                        Node("namedexpr_test",
                             <<Name("x"), Tok("COLONEQUAL"), Leaf("NUMBER", <<"1">>)>>),
                        Tok("RPAR")>>)),
     Node("funcdef",
          <<Name("def"), Name("f"),
            Node("parameters",
                 <<Tok("LPAR"),
                   Node("typedargslist", <<Name("a"), Tok("COMMA"), Tok("SLASH")>>),
                   Tok("RPAR")>>),
            Tok("COLON"), simple_stmt(Name("pass"))>>),
     simple_stmt(Node("term", <<Name("a"), Tok("SLASH"), Name("b")>>)),
     Node("decorated",
          <<Node("decorator", <<Tok("AT"), Name("f"), Tok("NEWLINE")>>),
            Def(<<"name">>, FALSE)>>),
     Node("decorated",
          <<Node("decorator",
                 <<Tok("AT"),
                   Node("power",
                        <<Name("f"),
                          Node("trailer", <<Tok("LSQB"), Leaf("NUMBER", <<"0">>),
                                            Tok("RSQB")>>)>>),
                   Tok("NEWLINE")>>),
            Def(<<"name">>, FALSE)>>)}

\* Modules of one or two literal assignments, of one other statement, of one
\* definition, of one call, and of a definition followed by a call.
FeatureTrees ==
    {file_input(<<Assign(Leaf("STRING", v))>>) : v \in StringValues}
        \cup {file_input(<<Assign(Leaf("NUMBER", v))>>) : v \in NumberValues}
        \cup {file_input(<<Assign(Leaf("STRING", v)), Assign(Leaf("NUMBER", w))>>) :
                 v \in StringValues, w \in NumberValues}
        \cup {file_input(<<s>>) : s \in OtherStmts}
        \cup {file_input(<<Def(ps, pt)>>) :
                 ps \in SeqsUpTo(ParamKinds, MaxArgs), pt \in BOOLEAN}
        \cup {file_input(<<Call(as, at)>>) :
                 as \in SeqsUpTo(ArgKinds, MaxArgs), at \in BOOLEAN}
        \cup {file_input(<<Def(<<p>>, pt), Call(<<a>>, at)>>) :
                 p \in ParamKinds, pt \in BOOLEAN, a \in ArgKinds, at \in BOOLEAN}

----------------------------------------------------------------------------
(* The analyses applied to a tree *)

NoMode == [target_versions |-> {}, is_pyi |-> FALSE]

InitWith(sources, modes) ==
    /\ src \in sources
    /\ mode \in modes
    /\ pc = "start"
    /\ future_imports = {}
    /\ features = {}
    /\ versions = {}
    /\ notice = FALSE
    /\ normalized = FALSE
    /\ split_line_features = {}
    /\ remove_u_prefix = FALSE
    /\ consumed = 0
    /\ after = 0
    /\ dst_contents = <<>>
    /\ ret = NotReturned

InitFeatures == InitWith({Source(t) : t \in FeatureTrees}, {NoMode})

\* A call get_features_used(src.tree)
CallGetFeaturesUsed ==
    /\ pc = "start"
    /\ features' = get_features_used(src.tree)
    /\ pc' = "done"
    /\ UNCHANGED <<src, mode, future_imports, versions, notice, normalized,
                   split_line_features, remove_u_prefix, consumed, after, dst_contents,
                   ret>>

SpecFeatures == InitFeatures /\ [][CallGetFeaturesUsed]_vars

----------------------------------------------------------------------------
(* Properties of get_features_used *)

NodesOf(tree) == {e.n : e \in Range(pre_order(tree, None))}

IsQuote(c) == c \in Quotes

\* The prefix of a string literal: its text before the opening quote.
RECURSIVE StringPrefix(_)
StringPrefix(v) ==
    IF v = <<>> \/ IsQuote(Head(v)) THEN <<>> ELSE <<Head(v)>> \o StringPrefix(Tail(v))

Lower(c) == CASE c = "F" -> "f" [] c = "R" -> "r" [] OTHER -> c

\* A formatted string literal: prefix f, rf or fr in any mix of upper and lower case.
IsFormattedString(v) ==
    LET p == StringPrefix(v)
    IN  [i \in 1..Len(p) |-> Lower(p[i])] \in {<<"f">>, <<"r", "f">>, <<"f", "r">>}

\* A legacy octal integer literal: digits only, a leading 0, not all zeros.
IsLegacyOctalInt(v) ==
    /\ Len(v) >= 2
    /\ v[1] = "0"
    /\ \A i \in 1..Len(v) : v[i] \in Digits
    /\ \E i \in 1..Len(v) : v[i] # "0"

\* A list that ends with a comma and has a * or ** argument.
TrailingCommaAfterStar(n) ==
    /\ n.children # <<>>
    /\ n.children[Len(n.children)].type = "COMMA"
    /\ \E i \in 1..Len(n.children) :
          \/ n.children[i].leaf /\ n.children[i].type \in STARS
          \/ /\ n.children[i].type = "argument"
             /\ n.children[i].children[1].type \in STARS

\* C7: NUMERIC_UNDERSCORES is in the result iff some NUMBER leaf's text contains
\* '_', and OCTAL_INT_LITERAL is in the result iff some NUMBER leaf is a legacy
\* octal integer literal (never for 0000, 0, 0o17, 0x1f, a float or an imaginary).
C7_NumericLiteralTags ==
    pc = "done" =>
        /\ "NUMERIC_UNDERSCORES" \in features
              <=> \E n \in NodesOf(src.tree) : n.type = "NUMBER" /\ "_" \in Range(n.value)
        /\ "OCTAL_INT_LITERAL" \in features
              <=> \E n \in NodesOf(src.tree) : n.type = "NUMBER" /\ IsLegacyOctalInt(n.value)

\* C8: F_STRINGS is in the result iff the tree has a STRING leaf that is a
\* formatted string literal (prefix f/F alone or with r/R, either order, any case).
C8_FStringDetection ==
    pc = "done" =>
        ("F_STRINGS" \in features
            <=> \E n \in NodesOf(src.tree) : n.type = "STRING" /\ IsFormattedString(n.value))

\* C10: TRAILING_COMMA_IN_DEF (typedargslist) respectively TRAILING_COMMA_IN_CALL
\* (arglist) is in the result iff some such list ends with a comma and has a * or
\* ** argument; a comma without a star and a star without a comma add neither.
C10_TrailingCommaAfterStar ==
    pc = "done" =>
        /\ "TRAILING_COMMA_IN_DEF" \in features
              <=> \E n \in NodesOf(src.tree) :
                      n.type = "typedargslist" /\ TrailingCommaAfterStar(n)
        /\ "TRAILING_COMMA_IN_CALL" \in features
              <=> \E n \in NodesOf(src.tree) :
                      n.type = "arglist" /\ TrailingCommaAfterStar(n)

\* C10 witness: a call f(*a,) beside a signature with a star and no trailing
\* comma: only the call's tag is in the result.
C10_Witness ==
    /\ pc = "done"
    /\ features = {"TRAILING_COMMA_IN_CALL"}
    /\ \E n \in NodesOf(src.tree) : n.type = "arglist" /\ TrailingCommaAfterStar(n)
    /\ \E n \in NodesOf(src.tree) :
          /\ n.type = "typedargslist"
          /\ n.children[Len(n.children)].type # "COMMA"
          /\ \E i \in 1..Len(n.children) : n.children[i].type \in STARS

----------------------------------------------------------------------------
(* get_future_imports applied to a tree *)

MaxStmts == 2

import_from(module, imported) ==
    Node("import_from", <<Name("from"), module, Name("import")>> \o imported)

import_as_name(orig, alias) ==
    Node("import_as_name", <<Name(orig), Name("as"), Name(alias)>>)

\* "d"; from __future__ import annotations; from __future__ import unicode_literals
\* as ul; from __future__ import (division, print_function as pf); from os import
\* path; from os.path import join; x = 1; pass
SmallStmts ==
    {Leaf("STRING", <<"\"", "d", "\"">>),
     import_from(Name("__future__"), <<Name("annotations")>>),
     import_from(Name("__future__"), <<import_as_name("unicode_literals", "ul")>>),
     import_from(Name("__future__"),
                 <<Tok("LPAR"),
                   Node("import_as_names",
                        <<Name("division"), Tok("COMMA"),
                          import_as_name("print_function", "pf")>>),
                   Tok("RPAR")>>),
     import_from(Name("os"), <<Name("path")>>),
     import_from(Node("dotted_name", <<Name("os"), Tok("DOT"), Name("path")>>),
                 <<Name("join")>>),
     Node("expr_stmt", <<Name("x"), Tok("EQUAL"), Leaf("NUMBER", <<"1">>)>>),
     Name("pass")}

\* A top-level child of the module: one small statement on a line, two joined by
\* a semicolon, or a compound statement.
TopLevelStmts ==
    {simple_stmt(s) : s \in SmallStmts}
        \cup {Node("simple_stmt", <<s, Tok("SEMI"), t, Tok("NEWLINE")>>) :
                 s \in SmallStmts, t \in SmallStmts}
        \cup {Def(<<"name">>, FALSE)}

ImportTrees == {file_input(stmts) : stmts \in SeqsUpTo(TopLevelStmts, MaxStmts)}

InitImports == InitWith({Source(t) : t \in ImportTrees}, {NoMode})

\* A call get_future_imports(src.tree)
CallGetFutureImports ==
    /\ pc = "start"
    /\ LET got == get_future_imports(src.tree)
       IN  /\ future_imports' = got.imports
           /\ pc' = IF got.raised THEN "raised" ELSE "done"
    /\ UNCHANGED <<src, mode, features, versions, notice, normalized,
                   split_line_features, remove_u_prefix, consumed, after, dst_contents,
                   ret>>

SpecImports == InitImports /\ [][CallGetFutureImports]_vars

\* The statements of the module in order: the small statements of each line, and
\* each compound statement.
RECURSIVE StatementsOf(_)
StatementsOf(children) ==
    IF children = <<>> THEN <<>>
    ELSE
        LET child == Head(children)
            own == IF child.type = "simple_stmt"
                   THEN SelectSeq(child.children, LAMBDA c : c.type \notin {"SEMI", "NEWLINE"})
                   ELSE IF child.type = "ENDMARKER" THEN <<>> ELSE <<child>>
        IN  own \o StatementsOf(Tail(children))

IsDocstringStmt(s) == s.leaf /\ s.type = "STRING"

IsFutureImport(s) ==
    /\ s.type = "import_from"
    /\ s.children[2].leaf
    /\ s.children[2].value = <<"__future__">>

\* The original names a `from ... import ...` statement imports.
RECURSIVE ImportedNames(_)
ImportedNames(n) ==
    IF n.leaf THEN (IF n.type = "NAME" THEN {n.value[1]} ELSE {})
    ELSE IF n.type = "import_as_name" THEN {n.children[1].value[1]}
    ELSE IF n.type = "import_from"
        THEN UNION {ImportedNames(n.children[i]) : i \in 4..Len(n.children)}
    ELSE UNION {ImportedNames(n.children[i]) : i \in 1..Len(n.children)}

\* The names imported from __future__ in the leading run of statements that are
\* docstrings or __future__ imports.
RECURSIVE LeadingFutureNames(_)
LeadingFutureNames(stmts) ==
    IF stmts = <<>> THEN {}
    ELSE IF IsFutureImport(Head(stmts))
        THEN ImportedNames(Head(stmts)) \cup LeadingFutureNames(Tail(stmts))
    ELSE IF IsDocstringStmt(Head(stmts)) THEN LeadingFutureNames(Tail(stmts))
    ELSE {}

\* C3: get_future_imports returns exactly the original names imported by the
\* __future__ imports of the leading run of top-level statements that are
\* docstrings or __future__ imports.
C3_FutureImportsOfLeadingRun ==
    pc = "done" =>
        future_imports = LeadingFutureNames(StatementsOf(src.tree.children))

----------------------------------------------------------------------------
(* format_str *)

MaxLines == 2

MaxBlank == 1

\* transform_line yields one physical line (the line fits) or two (it was split).
PhysCounts == {1, 2}

\* What the collaborators of format_str answer for one logical line that
\* lines.visit(src_node) yields: elt.maybe_empty_lines returns (before, after) and
\* transform_line yields `phys` physical lines.  They are functions of the source
\* and the mode, so a source carries their answers.
LogicalLines == [before : 0..MaxBlank, after : 0..MaxBlank, phys : PhysCounts]

LineSeqs == {<<>>} \cup SeqsUpTo(LogicalLines, MaxLines)

\* str(empty_line), and str(line) of the k-th physical line of logical line i
EmptyLine == [line |-> 0, part |-> 0]

PhysicalLine(i, k) == [line |-> i, part |-> k]

\* s * n for a string s: n copies, none when n <= 0
Repeat(s, n) == [k \in 1..n |-> s]

\* Mutant of Parse: the check of the pinned versions for Python 2 is made, and the
\* notice shown, before the source is parsed.
ParseAfterNotice ==
    /\ pc = "start"
    /\ notice' = ("PY27" \in mode.target_versions)
    /\ pc' = IF src.parses THEN "parsed" ELSE "raised"
    /\ UNCHANGED <<src, mode, future_imports, features, versions, normalized,
                   split_line_features, remove_u_prefix, consumed, after, dst_contents,
                   ret>>

\* lib2to3_parse(src_contents.lstrip(), mode.target_versions): the tree, or the
\* parse error raised out of format_str
Parse ==
    /\ pc = "start"
    /\ pc' = IF src.parses THEN "parsed" ELSE "raised"
    /\ UNCHANGED <<src, mode, future_imports, features, versions, notice, normalized,
                   split_line_features, remove_u_prefix, consumed, after, dst_contents,
                   ret>>

\* dst_contents = []; future_imports = get_future_imports(src_node)
FutureImports ==
    /\ pc = "parsed"
    /\ LET got == get_future_imports(src.tree)
       IN  /\ future_imports' = got.imports
           /\ pc' = IF got.raised THEN "raised" ELSE "imports"
    /\ dst_contents' = <<>>
    /\ UNCHANGED <<src, mode, features, versions, notice, normalized,
                   split_line_features, remove_u_prefix, consumed, after, ret>>

\* Mutant of ResolveVersions: pinned versions that do not support the features of
\* the tree are dropped.
ResolveVersionsCompatibleOnly ==
    /\ pc = "imports"
    /\ versions' = IF mode.target_versions # {}
                   THEN mode.target_versions \cap detect_target_versions(src.tree)
                   ELSE detect_target_versions(src.tree)
    /\ pc' = "versions"
    /\ UNCHANGED <<src, mode, future_imports, features, notice, normalized,
                   split_line_features, remove_u_prefix, consumed, after, dst_contents,
                   ret>>

\* if mode.target_versions: versions = mode.target_versions
\* else: versions = detect_target_versions(src_node)
ResolveVersions ==
    /\ pc = "imports"
    /\ versions' = IF mode.target_versions # {}
                   THEN mode.target_versions
                   ELSE detect_target_versions(src.tree)
    /\ pc' = "versions"
    /\ UNCHANGED <<src, mode, future_imports, features, notice, normalized,
                   split_line_features, remove_u_prefix, consumed, after, dst_contents,
                   ret>>

\* if TargetVersion.PY27 in mode.target_versions or versions == {TargetVersion.PY27}:
\*     show_error_panel(msg)
Deprecation ==
    /\ pc = "versions"
    /\ notice' = ("PY27" \in mode.target_versions \/ versions = {"PY27"})
    /\ pc' = "checked"
    /\ UNCHANGED <<src, mode, future_imports, features, versions, normalized,
                   split_line_features, remove_u_prefix, consumed, after, dst_contents,
                   ret>>

\* normalize_fmt_off(src_node)
NormalizeFmtOff ==
    /\ pc = "checked"
    /\ normalized' = TRUE
    /\ pc' = "normalized"
    /\ UNCHANGED <<src, mode, future_imports, features, versions, notice,
                   split_line_features, remove_u_prefix, consumed, after, dst_contents,
                   ret>>

\* lines = LineGenerator(...); elt = EmptyLineTracker(...); after = 0;
\* split_line_features = {...}
Setup ==
    /\ pc = "normalized"
    /\ remove_u_prefix' = ("unicode_literals" \in future_imports
                              \/ supports_feature(versions, "UNICODE_LITERALS"))
    /\ after' = 0
    /\ split_line_features' =
           {feature \in {"TRAILING_COMMA_IN_CALL", "TRAILING_COMMA_IN_DEF"} :
               supports_feature(versions, feature)}
    /\ pc' = "loop"
    /\ UNCHANGED <<src, mode, future_imports, features, versions, notice, normalized,
                   consumed, dst_contents, ret>>

\* Mutant of LoopLine: the blank lines owed after a line are appended right
\* after its physical lines, the last line's too.
LoopLineAfterAtOnce ==
    /\ pc = "loop"
    /\ consumed < Len(src.lines)
    /\ LET i == consumed + 1
           current_line == src.lines[i]
       IN  /\ dst_contents' =
                  dst_contents
                      \o <<Repeat(EmptyLine, current_line.before)>>
                      \o [k \in 1..current_line.phys |-> <<PhysicalLine(i, k)>>]
                      \o <<Repeat(EmptyLine, current_line.after)>>
           /\ after' = current_line.after
           /\ consumed' = i
    /\ UNCHANGED <<src, mode, pc, future_imports, features, versions, notice, normalized,
                   split_line_features, remove_u_prefix, ret>>

\* One iteration of `for current_line in lines.visit(src_node)`
LoopLine ==
    /\ pc = "loop"
    /\ consumed < Len(src.lines)
    /\ LET i == consumed + 1
           current_line == src.lines[i]
       IN  /\ dst_contents' =
                  dst_contents
                      \o <<Repeat(EmptyLine, after), Repeat(EmptyLine, current_line.before)>>
                      \o [k \in 1..current_line.phys |-> <<PhysicalLine(i, k)>>]
           /\ after' = current_line.after
           /\ consumed' = i
    /\ UNCHANGED <<src, mode, pc, future_imports, features, versions, notice, normalized,
                   split_line_features, remove_u_prefix, ret>>

\* return "".join(dst_contents), once the generator is exhausted
Return ==
    /\ pc = "loop"
    /\ consumed = Len(src.lines)
    /\ ret' = <<Concat(dst_contents)>>
    /\ pc' = "done"
    /\ UNCHANGED <<src, mode, future_imports, features, versions, notice, normalized,
                   split_line_features, remove_u_prefix, consumed, after, dst_contents>>

FormatStr ==
    \/ Parse
    \/ FutureImports
    \/ ResolveVersions
    \/ Deprecation
    \/ NormalizeFmtOff
    \/ Setup
    \/ LoopLine
    \/ Return

\* x = 10; x = f"f"; x = 0123; x = 10_000; f(*a,);
\* from __future__ import unicode_literals as ul
FormatStmts ==
    {Assign(Leaf("NUMBER", <<"1", "0">>)),
     Assign(Leaf("STRING", <<"f", "\"", "f", "\"">>)),
     Assign(Leaf("NUMBER", <<"0", "1", "2", "3">>)),
     Assign(Leaf("NUMBER", <<"1", "0", "_", "0", "0", "0">>)),
     Call(<<"star">>, TRUE),
     simple_stmt(import_from(Name("__future__"),
                             <<import_as_name("unicode_literals", "ul")>>))}

FormatTrees == {file_input(stmts) : stmts \in {<<>>} \cup SeqsUpTo(FormatStmts, MaxStmts)}

FormatModes ==
    {[target_versions |-> tv, is_pyi |-> FALSE] :
        tv \in {{}, {"PY27"}, {"PY36"}, {"PY27", "PY36"}, {"PY33", "PY38"}}}

\* Three sources' worth of logical lines: none, one, two.
SomeLineSeqs ==
    {<<>>,
     <<[before |-> 0, after |-> 0, phys |-> 1]>>,
     <<[before |-> 0, after |-> 1, phys |-> 2], [before |-> 1, after |-> 0, phys |-> 1]>>}

\* A text the grammar rejects: lib2to3_parse raises and there is no tree.
Unparsable == [parses |-> FALSE, tree |-> Leaf("ERRORTOKEN", <<>>), lines |-> NoLines]

FormatSources ==
    {Unparsable}
        \cup {[parses |-> TRUE, tree |-> t, lines |-> ls] :
                 t \in FormatTrees, ls \in SomeLineSeqs}

Init == InitWith(FormatSources, FormatModes)

Next == FormatStr

Spec == Init /\ [][Next]_vars

\* format_str on one module under every answer of the collaborators
InitLines ==
    InitWith({[parses |-> TRUE, tree |-> file_input(<<Assign(Leaf("NUMBER", <<"1", "0">>))>>),
               lines |-> ls] : ls \in LineSeqs},
             {NoMode})

SpecLines == InitLines /\ [][Next]_vars

----------------------------------------------------------------------------
(* Properties of format_str *)

VersionsResolved == pc \in {"versions", "checked", "normalized", "loop", "done"}

\* C2: with mode.target_versions non-empty the resolved versions are exactly
\* mode.target_versions, whatever features the tree uses; otherwise they are
\* exactly the versions whose VERSION_TO_FEATURES entry contains every feature
\* get_features_used finds in the tree.
C2_VersionResolution ==
    VersionsResolved =>
        IF mode.target_versions # {}
        THEN versions = mode.target_versions
        ELSE \A v \in TargetVersion :
                 v \in versions <=> get_features_used(src.tree) \subseteq VERSION_TO_FEATURES[v]

\* C2 witness: nothing pinned, and detection keeps some versions and drops others.
C2_Witness ==
    /\ pc = "versions"
    /\ mode.target_versions = {}
    /\ versions = {"PY36", "PY38"}
    /\ get_features_used(src.tree) = {"F_STRINGS", "NUMERIC_UNDERSCORES"}

\* C4: with no pinned target version and a Python 2 only feature in the tree,
\* format_str shows the deprecation notice and returns the formatted text.
C4_LegacyFeatureNotice ==
    (/\ pc = "done"
     /\ mode.target_versions = {}
     /\ get_features_used(src.tree) \cap Py2Features # {})
        => notice /\ ret # NotReturned

\* C5: a source that does not parse makes format_str raise at once: nothing is
\* returned, no notice is shown, nothing is normalized, generated or appended;
\* and whatever format_str returns is the complete text of every logical line.
C5_ParseErrorBeforeAnything ==
    /\ ~src.parses =>
          /\ pc \in {"start", "raised"}
          /\ ret = NotReturned
          /\ ~notice
          /\ ~normalized
          /\ consumed = 0
          /\ dst_contents = <<>>
    /\ pc = "raised" => ret = NotReturned
    /\ ret # NotReturned =>
          /\ pc = "done"
          /\ src.parses
          /\ consumed = Len(src.lines)
          /\ ret = <<Concat(dst_contents)>>

\* C5 witness: the parse error has been raised under a pinned Python 2 target.
C5_Witness ==
    /\ ~src.parses
    /\ pc = "raised"
    /\ "PY27" \in mode.target_versions

\* The text the logical lines 1..n of `lines` make: for each line in order the
\* blank lines owed after its predecessor, its own blank lines before, then its
\* physical lines in the order yielded.
RECURSIVE AssembledText(_, _)
AssembledText(lines, n) ==
    IF n = 0 THEN <<>>
    ELSE AssembledText(lines, n - 1)
            \o Repeat(EmptyLine, IF n = 1 THEN 0 ELSE lines[n - 1].after)
            \o Repeat(EmptyLine, lines[n].before)
            \o [k \in 1..lines[n].phys |-> PhysicalLine(n, k)]

\* C9: the text is assembled in document order, each logical line preceded by
\* after(previous) then before(current) blank lines; the `after` count of the
\* last line is never emitted.
C9_AssemblyOrder ==
    /\ pc = "loop" => Concat(dst_contents) = AssembledText(src.lines, consumed)
    /\ pc = "done" => ret = <<AssembledText(src.lines, Len(src.lines))>>

\* C9 witness: two logical lines, both owed blank lines after them, the first
\* split in two physical lines; the text returned ends with the second line.
C9_Witness ==
    /\ pc = "done"
    /\ Len(src.lines) = 2
    /\ src.lines[1].after > 0
    /\ src.lines[1].phys = 2
    /\ src.lines[2].before > 0
    /\ src.lines[2].after > 0
    /\ ret[1][Len(ret[1])] = PhysicalLine(2, src.lines[2].phys)

====
